---- MODULE Spec2Model ----
(***************************************************************************)
(* yt-mcp: an MCP server (src/main.py) with two tools,                     *)
(* fetch_video_transcript(url) and fetch_instructions(prompt_name), and a  *)
(* module-level bootstrap.                                                 *)
(*                                                                         *)
(* Text that the program inspects character by character (URLs, paths,     *)
(* file contents, transcript lines) is a sequence of one-character         *)
(* strings.  Exception messages are sequences of fragments; an f-string    *)
(* is the concatenation of its fragments.                                  *)
(***************************************************************************)
EXTENDS Integers, Sequences, FiniteSets, TLC

VARIABLES
    bootpc,     \* position of the module-level code of main.py
    bootlog,    \* the bootstrap steps completed so far, in order
    environ,    \* os.environ after load_dotenv(): name -> value, or Unset
    cwd,        \* the process's current working directory (path segments)
    files,      \* the file system: resolved path (segments) -> contents
    captions,   \* what the captions service answers for a video id
    pc,         \* per invocation: position inside the tool handler
    args,       \* per invocation: the tool called and its argument
    locals,     \* per invocation: the handler's local variables
    outcome,    \* per invocation: the returned string or the raised exception
    fetches     \* per invocation: the number of ytt_api.fetch calls made

vars == <<bootpc, bootlog, environ, cwd, files, captions,
          pc, args, locals, outcome, fetches>>

(***************************************************************************)
(* Text helpers                                                            *)
(***************************************************************************)
Rep(ch, n) == [i \in 1..n |-> ch]

StartsWith(s, p) == Len(s) >= Len(p) /\ SubSeq(s, 1, Len(p)) = p

(***************************************************************************)
(* Video-ID extraction: main.py lines 62-69                                *)
(*   video_id_pattern = r'(?:v=|\/)([0-9A-Za-z_-]{11}).*'                  *)
(*   video_id_match = re.search(video_id_pattern, url)                     *)
(***************************************************************************)
IdLen == 11

IdCharsNoDash ==
    {"0", "1", "2", "3", "4", "5", "6", "7", "8", "9",
     "A", "B", "C", "D", "E", "F", "G", "H", "I", "J", "K", "L", "M",
     "N", "O", "P", "Q", "R", "S", "T", "U", "V", "W", "X", "Y", "Z",
     "a", "b", "c", "d", "e", "f", "g", "h", "i", "j", "k", "l", "m",
     "n", "o", "p", "q", "r", "s", "t", "u", "v", "w", "x", "y", "z",
     "_"}

\* the character class [0-9A-Za-z_-]
IdChars == IdCharsNoDash \cup {"-"}

\* (?:v=|\/) tried at position i: the number of characters the group
\* consumes there, 0 when neither alternative matches
MarkerLen(url, i) ==
    IF i + 1 <= Len(url) /\ url[i] = "v" /\ url[i + 1] = "="
    THEN 2
    ELSE IF i <= Len(url) /\ url[i] = "/" THEN 1 ELSE 0

\* the whole pattern tried at position i; the trailing .* matches any rest,
\* the empty one included, and so never makes the attempt fail
PatternMatchesAt(url, i) ==
    LET k == MarkerLen(url, i)
    IN  /\ k > 0
        /\ i + k + IdLen - 1 <= Len(url)
        /\ \A j \in (i + k)..(i + k + IdLen - 1) : url[j] \in IdChars

RECURSIVE ScanFrom(_, _)
ScanFrom(url, i) ==
    IF i > Len(url) THEN 0
    ELSE IF PatternMatchesAt(url, i) THEN i
    ELSE ScanFrom(url, i + 1)

RECURSIVE ScanBackFrom(_, _)
ScanBackFrom(url, i) ==
    IF i < 1 THEN 0
    ELSE IF PatternMatchesAt(url, i) THEN i
    ELSE ScanBackFrom(url, i - 1)

\* a scan that keeps the last match instead of the first
re_search_last(url) == ScanBackFrom(url, Len(url))

\* re.match: the pattern anchored at the start of the string
re_match(url) == IF PatternMatchesAt(url, 1) THEN 1 ELSE 0

\* re.search: the leftmost position where the pattern matches, 0 for None
re_search(url) == ScanFrom(url, 1)

\* video_id_match.group(1)
group1(url, i) ==
    LET k == MarkerLen(url, i) IN SubSeq(url, i + k, i + k + IdLen - 1)

(***************************************************************************)
(* Exceptions and results                                                  *)
(***************************************************************************)
NoOutcome == [kind |-> "none", value |-> <<>>]
Returned(text) == [kind |-> "return", value |-> text]
Raised(type, message) == [kind |-> type, value |-> message]

InvalidUrlMessage == <<"Invalid YouTube URL">>

NoLocals ==
    [video_id |-> <<>>, http_proxy_url |-> <<>>, https_proxy_url |-> <<>>,
     transcript |-> <<>>, prompt_path |-> <<>>]

(***************************************************************************)
(* format_transcript: main.py lines 71-84.  entry.start is a number of     *)
(* seconds with a fractional part; the model holds it in thousandths of a  *)
(* second, so 59.999 is 59999.                                             *)
(***************************************************************************)
TicksPerSecond == 1000

DigitChars == <<"0", "1", "2", "3", "4", "5", "6", "7", "8", "9">>

RECURSIVE Decimal(_)
Decimal(n) ==
    IF n < 10 THEN <<DigitChars[n + 1]>>
    ELSE Decimal(n \div 10) \o <<DigitChars[(n % 10) + 1]>>

\* f"{n:02d}": decimal, zero-padded to at least two characters
Format02d(n) == IF n < 10 THEN <<"0">> \o Decimal(n) ELSE Decimal(n)

\* minutes = int(entry.start // 60)
minutes_of(start) == start \div (60 * TicksPerSecond)

\* seconds rounded to the nearest whole second
seconds_rounded(start) ==
    ((start % (60 * TicksPerSecond)) + (TicksPerSecond \div 2)) \div TicksPerSecond

\* seconds = int(entry.start % 60)
seconds_of(start) == (start % (60 * TicksPerSecond)) \div TicksPerSecond

\* timestamp = f"[{minutes:02d}:{seconds:02d}]"
timestamp_of(start) ==
    <<"[">> \o Format02d(minutes_of(start)) \o <<":">>
            \o Format02d(seconds_of(start)) \o <<"]">>

\* formatted_entry = f"{timestamp} {entry.text}"
formatted_entry(entry) == timestamp_of(entry.start) \o <<" ">> \o entry.text

\* sep.join(parts)
RECURSIVE Join(_, _)
Join(sep, parts) ==
    IF parts = <<>> THEN <<>>
    ELSE IF Len(parts) = 1 THEN Head(parts)
    ELSE Head(parts) \o sep \o Join(sep, Tail(parts))

format_transcript(transcript) ==
    Join(<<"\n">>, [i \in 1..Len(transcript) |-> formatted_entry(transcript[i])])

(***************************************************************************)
(* Paths and files (posixpath, open).  A path is text; the file system is  *)
(* keyed by the resolved path, a sequence of segments below the root.      *)
(***************************************************************************)
RECURSIVE LastIndexOf(_, _, _)
LastIndexOf(s, ch, i) ==
    IF i < 1 THEN 0 ELSE IF s[i] = ch THEN i ELSE LastIndexOf(s, ch, i - 1)

RECURSIVE RStrip(_, _)
RStrip(s, ch) ==
    IF s # <<>> /\ s[Len(s)] = ch THEN RStrip(SubSeq(s, 1, Len(s) - 1), ch) ELSE s

\* os.path.dirname
dirname(path) ==
    LET head == SubSeq(path, 1, LastIndexOf(path, "/", Len(path)))
    IN  IF head # <<>> /\ head # Rep("/", Len(head)) THEN RStrip(head, "/") ELSE head

\* one step of os.path.join: a component that starts with "/" replaces what
\* was joined so far
join2(path, b) ==
    IF StartsWith(b, <<"/">>) THEN b
    ELSE IF path = <<>> \/ path[Len(path)] = "/" THEN path \o b
    ELSE path \o <<"/">> \o b

\* os.path.join(a, b, c)
join3(a, b, c) == join2(join2(a, b), c)

\* the text of a path cut at "/" (empty pieces kept)
RECURSIVE SplitPath(_, _)
SplitPath(path, piece) ==
    IF path = <<>> THEN <<piece>>
    ELSE IF Head(path) = "/" THEN <<piece>> \o SplitPath(Tail(path), <<>>)
    ELSE SplitPath(Tail(path), Append(piece, Head(path)))

RECURSIVE Walk(_, _)
Walk(at, pieces) ==
    IF pieces = <<>> THEN at
    ELSE LET seg == Head(pieces)
         IN  IF seg = <<>> \/ seg = <<".">> THEN Walk(at, Tail(pieces))
             ELSE IF seg = <<".", ".">>
                  THEN Walk(IF at = <<>> THEN at ELSE SubSeq(at, 1, Len(at) - 1),
                            Tail(pieces))
             ELSE Walk(Append(at, seg), Tail(pieces))

\* the file a path names for a process whose working directory is dir:
\* absolute paths start at the root, relative ones at dir
Resolve(dir, path) ==
    Walk(IF StartsWith(path, <<"/">>) THEN <<>> ELSE dir, SplitPath(path, <<>>))

\* text-mode read (open(path, "r").read()): universal newlines, "\r\n" and
\* a lone "\r" are read as "\n"
RECURSIVE TextRead(_)
TextRead(raw) ==
    IF raw = <<>> THEN <<>>
    ELSE IF Head(raw) = "\r"
         THEN IF Len(raw) >= 2 /\ raw[2] = "\n"
              THEN <<"\n">> \o TextRead(Tail(Tail(raw)))
              ELSE <<"\n">> \o TextRead(Tail(raw))
    ELSE <<Head(raw)>> \o TextRead(Tail(raw))

NoSuchFileMessage(path) ==
    <<"[Errno 2] No such file or directory: '">> \o path \o <<"'">>

\* with open(path, "r") as f: return f.read()
open_read(dir, fs, path) ==
    LET target == Resolve(dir, path)
    IN  IF target \in DOMAIN fs
        THEN Returned(TextRead(fs[target]))
        ELSE Raised("FileNotFoundError", NoSuchFileMessage(path))

\* __file__ of main.py: the interpreter gives the main module an absolute path
MainFile == <<"/", "a", "p", "p", "/", "m", "a", "i", "n", ".", "p", "y">>

PromptsDirName == <<"p", "r", "o", "m", "p", "t", "s">>
MdSuffix == <<".", "m", "d">>

\* "prompts/server_instructions.md", the path opened at start-up
ServerInstructionsPath ==
    PromptsDirName \o <<"/", "s", "e", "r", "v", "e", "r", "_", "i", "n", "s", "t", "r",
                        "u", "c", "t", "i", "o", "n", "s">> \o MdSuffix

\* prompt_path of fetch_instructions
prompt_path_of(prompt_name) ==
    join3(dirname(MainFile), PromptsDirName, prompt_name \o MdSuffix)

(***************************************************************************)
(* Environment variables, the captions service                             *)
(***************************************************************************)
Unset == [set |-> FALSE, value |-> ""]
Val(v) == [set |-> TRUE, value |-> v]

\* os.getenv(name): None when the variable is not set
getenv(name) == environ[name]

\* a test for the empty string alone
EmptyOnly(x) == x.set /\ x.value = ""

\* Python's "not x" for x a string or None
Falsy(x) == ~x.set \/ x.value = ""

Failure(type, message) ==
    [ok |-> FALSE, error |-> Raised(type, message), entries |-> <<>>]
Success(entries) == [ok |-> TRUE, error |-> NoOutcome, entries |-> entries]

\* ytt_api.fetch(video_id): the transcript, or the exception the client raises
CaptionsFor(video_id) ==
    IF video_id \in DOMAIN captions THEN captions[video_id]
    ELSE Failure("VideoUnavailable", <<"The video is no longer available">>)

(***************************************************************************)
(* fetch_video_transcript: main.py lines 50-109                            *)
(***************************************************************************)
NCalls == 2
Calls == 1..NCalls

\* one variable shared by every invocation
SharedFrame(c) == 1

\* the locals of an invocation live in that invocation's own frame
Frame(c) == c

ProxyMissingMessage ==
    <<"Proxy credentials not configured. Set PROXY_USERNAME, PROXY_PASSWORD, and PROXY_URL environment variables.">>

WrapPrefix == "Error fetching transcript with proxy: "

\* an except clause that drops the cause's text
WrapWithoutCause(e) == Raised("Exception", <<WrapPrefix>>)

\* except Exception as e: raise Exception(f"Error fetching transcript with proxy: {str(e)}")
WrapException(e) == Raised("Exception", <<WrapPrefix>> \o e.value)

\* a call of one of the registered tools arrives; inputs are the calls that
\* may arrive
Invoke(c, inputs) ==
    /\ bootpc = "serving"
    /\ pc[c] = "idle"
    /\ \E input \in inputs :
          /\ args' = [args EXCEPT ![c] = input]
          /\ pc' = [pc EXCEPT ![c] = IF input.tool = "fetch_video_transcript"
                                      THEN "extract" ELSE "path"]
    /\ UNCHANGED <<bootpc, bootlog, environ, cwd, files, captions,
                   locals, outcome, fetches>>

TranscriptCalls(urls) == {[tool |-> "fetch_video_transcript", arg |-> u] : u \in urls}
InstructionCalls(names) == {[tool |-> "fetch_instructions", arg |-> n] : n \in names}

\* lines 62-69
ExtractStep(c) ==
    /\ pc[c] = "extract"
    /\ LET url == args[c].arg
           video_id_match == re_search(url)
       IN  IF video_id_match = 0
           THEN /\ outcome' = [outcome EXCEPT
                                 ![c] = Raised("ValueError", InvalidUrlMessage)]
                /\ pc' = [pc EXCEPT ![c] = "done"]
                /\ UNCHANGED locals
           ELSE /\ locals' = [locals EXCEPT
                                ![Frame(c)].video_id = group1(url, video_id_match)]
                /\ pc' = [pc EXCEPT ![c] = "proxy"]
                /\ UNCHANGED outcome
    /\ UNCHANGED <<bootpc, bootlog, environ, cwd, files, captions, args, fetches>>

\* lines 86-102
ProxyStep(c) ==
    /\ pc[c] = "proxy"
    /\ LET proxy_username == getenv("PROXY_USERNAME")
           proxy_password == getenv("PROXY_PASSWORD")
           proxy_url_base == getenv("PROXY_URL")
       IN  IF Falsy(proxy_username) \/ Falsy(proxy_password) \/ Falsy(proxy_url_base)
           THEN /\ outcome' = [outcome EXCEPT
                    ![c] = WrapException(Raised("ValueError", ProxyMissingMessage))]
                /\ pc' = [pc EXCEPT ![c] = "done"]
                /\ UNCHANGED locals
           ELSE /\ locals' = [locals EXCEPT
                    ![Frame(c)].http_proxy_url =
                        <<"http://", proxy_username.value, ":",
                          proxy_password.value, "@", proxy_url_base.value>>,
                    ![Frame(c)].https_proxy_url =
                        <<"https://", proxy_username.value, ":",
                          proxy_password.value, "@", proxy_url_base.value>>]
                /\ pc' = [pc EXCEPT ![c] = "fetch"]
                /\ UNCHANGED outcome
    /\ UNCHANGED <<bootpc, bootlog, environ, cwd, files, captions, args, fetches>>

\* lines 104-105, and 108-109 when the client raises
FetchStep(c) ==
    /\ pc[c] = "fetch"
    /\ fetches' = [fetches EXCEPT ![c] = @ + 1]
    /\ LET response == CaptionsFor(locals[Frame(c)].video_id)
       IN  IF response.ok
           THEN /\ locals' = [locals EXCEPT ![Frame(c)].transcript = response.entries]
                /\ pc' = [pc EXCEPT ![c] = "format"]
                /\ UNCHANGED outcome
           ELSE /\ outcome' = [outcome EXCEPT ![c] = WrapException(response.error)]
                /\ pc' = [pc EXCEPT ![c] = "done"]
                /\ UNCHANGED locals
    /\ UNCHANGED <<bootpc, bootlog, environ, cwd, files, captions, args>>

\* line 106
FormatStep(c) ==
    /\ pc[c] = "format"
    /\ outcome' = [outcome EXCEPT
                     ![c] = Returned(format_transcript(locals[Frame(c)].transcript))]
    /\ pc' = [pc EXCEPT ![c] = "done"]
    /\ UNCHANGED <<bootpc, bootlog, environ, cwd, files, captions, args, locals, fetches>>

(***************************************************************************)
(* fetch_instructions: main.py lines 111-129                               *)
(***************************************************************************)
\* lines 126-127
PathStep(c) ==
    /\ pc[c] = "path"
    /\ locals' = [locals EXCEPT ![Frame(c)].prompt_path = prompt_path_of(args[c].arg)]
    /\ pc' = [pc EXCEPT ![c] = "open"]
    /\ UNCHANGED <<bootpc, bootlog, environ, cwd, files, captions, args, outcome, fetches>>

\* lines 128-129
OpenStep(c) ==
    /\ pc[c] = "open"
    /\ outcome' = [outcome EXCEPT
                     ![c] = open_read(cwd, files, locals[Frame(c)].prompt_path)]
    /\ pc' = [pc EXCEPT ![c] = "done"]
    /\ UNCHANGED <<bootpc, bootlog, environ, cwd, files, captions, args, locals, fetches>>

\* the framework hands the result to the caller and the frame is gone
Return(c) ==
    /\ pc[c] = "done"
    /\ pc' = [pc EXCEPT ![c] = "idle"]
    /\ args' = [args EXCEPT ![c] = [tool |-> "", arg |-> <<>>]]
    /\ locals' = [locals EXCEPT ![Frame(c)] = NoLocals]
    /\ outcome' = [outcome EXCEPT ![c] = NoOutcome]
    /\ fetches' = [fetches EXCEPT ![c] = 0]
    /\ UNCHANGED <<bootpc, bootlog, environ, cwd, files, captions>>

(***************************************************************************)
(* The two handlers run from call to return in one piece, as functions of  *)
(* the argument and of what they read: environ, captions, cwd and files    *)
(***************************************************************************)
fetch_video_transcript(url) ==
    LET video_id_match == re_search(url)
    IN  IF video_id_match = 0
        THEN Raised("ValueError", InvalidUrlMessage)
        ELSE IF \/ Falsy(getenv("PROXY_USERNAME"))
                \/ Falsy(getenv("PROXY_PASSWORD"))
                \/ Falsy(getenv("PROXY_URL"))
        THEN WrapException(Raised("ValueError", ProxyMissingMessage))
        ELSE LET response == CaptionsFor(group1(url, video_id_match))
             IN  IF response.ok
                 THEN Returned(format_transcript(response.entries))
                 ELSE WrapException(response.error)

fetch_instructions(prompt_name) == open_read(cwd, files, prompt_path_of(prompt_name))

(***************************************************************************)
(* Module-level code of main.py: lines 17-48, the two @mcp.tool()          *)
(* decorators (50, 111) and mcp.run (131-133)                              *)
(***************************************************************************)
BootAbort == /\ bootpc' = "aborted"
             /\ UNCHANGED bootlog

BootAdvance(step, next) ==
    /\ bootpc' = next
    /\ bootlog' = Append(bootlog, step)

BootFrame == UNCHANGED <<environ, cwd, files, captions, pc, args, locals, outcome, fetches>>

\* lines 21, 24-25
CheckDomain ==
    /\ bootpc = "check_domain"
    /\ IF Falsy(getenv("AUTH0_DOMAIN"))
       THEN BootAbort
       ELSE BootAdvance("auth0_domain", "check_resource")
    /\ BootFrame

\* lines 22, 26-27
CheckResourceUrl ==
    /\ bootpc = "check_resource"
    /\ IF Falsy(getenv("RESOURCE_SERVER_URL"))
       THEN BootAbort
       ELSE BootAdvance("resource_server_url", "read_instructions")
    /\ BootFrame

\* lines 30-31: a path relative to the working directory
ReadServerInstructions ==
    /\ bootpc = "read_instructions"
    /\ IF open_read(cwd, files, ServerInstructionsPath).kind = "return"
       THEN BootAdvance("server_instructions", "create_verifier")
       ELSE BootAbort
    /\ BootFrame

\* line 34: create_auth0_verifier() returns a verifier or raises
CreateVerifier ==
    /\ bootpc = "create_verifier"
    /\ \E constructed \in BOOLEAN :
          IF constructed
          THEN BootAdvance("token_verifier", "create_server")
          ELSE BootAbort
    /\ BootFrame

\* lines 37-48: FastMCP(...) with AuthSettings; AnyHttpUrl validates both URLs
CreateServer ==
    /\ bootpc = "create_server"
    /\ \E valid \in BOOLEAN :
          IF valid
          THEN BootAdvance("mcp", "register_transcript")
          ELSE BootAbort
    /\ BootFrame

\* line 50
RegisterTranscriptTool ==
    /\ bootpc = "register_transcript"
    /\ BootAdvance("fetch_video_transcript", "register_instructions")
    /\ BootFrame

\* line 111
RegisterInstructionsTool ==
    /\ bootpc = "register_instructions"
    /\ BootAdvance("fetch_instructions", "run")
    /\ BootFrame

\* lines 131-133: the loop is started only when main.py is the main module
Run ==
    /\ bootpc = "run"
    /\ \E is_main \in BOOLEAN :
          IF is_main
          THEN BootAdvance("run", "serving")
          ELSE /\ bootpc' = "imported"
               /\ UNCHANGED bootlog
    /\ BootFrame

(***************************************************************************)
(* The world around the program: files of the prompts directory are        *)
(* created, rewritten and deleted by whoever maintains the installation    *)
(***************************************************************************)
WriteFile(target, raw) ==
    /\ files' = [f \in DOMAIN files \cup {target} |->
                    IF f = target THEN raw ELSE files[f]]
    /\ files' # files
    /\ UNCHANGED <<bootpc, bootlog, environ, cwd, captions,
                   pc, args, locals, outcome, fetches>>

DeleteFile(target) ==
    /\ target \in DOMAIN files
    /\ files' = [f \in DOMAIN files \ {target} |-> files[f]]
    /\ UNCHANGED <<bootpc, bootlog, environ, cwd, captions,
                   pc, args, locals, outcome, fetches>>

(***************************************************************************)
(* Inputs                                                                  *)
(***************************************************************************)
WatchPrefix == <<"h", "t", "t", "p", "s", ":", "/", "/", "w", "w", "w", ".", "y", "o",
        "u", "t", "u", "b", "e", ".", "c", "o", "m", "/", "w", "a", "t", "c", "h", "?",
        "v", "=">>
ShortPrefix == <<"h", "t", "t", "p", "s", ":", "/", "/", "y", "o", "u", "t", "u", ".",
        "b", "e", "/">>
EmbedPrefix == <<"h", "t", "t", "p", "s", ":", "/", "/", "w", "w", "w", ".", "y", "o",
        "u", "t", "u", "b", "e", ".", "c", "o", "m", "/", "e", "m", "b", "e", "d", "/">>
NoCookieEmbedPrefix == <<"h", "t", "t", "p", "s", ":", "/", "/", "w", "w", "w", ".",
        "y", "o", "u", "t", "u", "b", "e", "-", "n", "o", "c", "o", "o", "k", "i", "e",
        ".", "c", "o", "m", "/", "e", "m", "b", "e", "d", "/">>

CommonPrefixes == {WatchPrefix, ShortPrefix, EmbedPrefix, NoCookieEmbedPrefix}

\* trailing query parameters; the last one carries a second v= marker
QuerySuffixes ==
    {<<>>, <<"&", "t", "=", "1", "0", "s">>, <<"?", "t", "=", "1", "0">>, <<"?", "s",
        "i", "=", "a", "-", "b", "_", "c">>,
     <<"&", "l", "i", "s", "t", "=", "P", "L", "x", "&", "v", "=", "z", "z", "z", "z",
         "z", "z", "z", "z", "z", "z", "z">>}

SampleIdChars == {"0", "9", "A", "Z", "a", "z", "_", "-", "v"}

SampleIds ==
    {Rep(a, k) \o Rep(b, IdLen - k) : a \in SampleIdChars, b \in SampleIdChars,
                                      k \in 0..IdLen}

CommonURLs == {p \o id \o s : p \in CommonPrefixes, id \in SampleIds, s \in QuerySuffixes}

IdA == <<"d", "Q", "w", "4", "w", "9", "W", "g", "X", "c", "Q">>
IdB == <<"-", "_", "0", "a", "Z", "9", "z", "A", "_", "-", "v">>

OddMarkers == {<<>>, <<"v", "=">>, <<"/">>, <<"?">>, <<"v">>}

\* two ids, ten characters, twelve characters, a "." inside, nothing
OddTokens ==
    {IdA, IdB, SubSeq(IdA, 1, IdLen - 1), IdA \o <<"x">>,
     SubSeq(IdA, 1, 5) \o <<".">> \o SubSeq(IdA, 7, IdLen), <<>>}

OddURLs ==
    {m1 \o t1 \o m2 \o t2 : m1 \in OddMarkers, t1 \in OddTokens,
                            m2 \in OddMarkers, t2 \in OddTokens}

URLUniverse == CommonURLs \cup OddURLs

TranscriptURLs ==
    {WatchPrefix \o IdA, ShortPrefix \o IdB \o <<"?", "t", "=", "1", "0">>,
     <<"h", "t", "t", "p", "s", ":", "/", "/", "w", "w", "w", ".", "y", "o", "u", "t",
         "u", "b", "e", ".", "c", "o", "m", "/", "p", "l", "a", "y", "l", "i", "s", "t",
         "-", "a", "b", "c", "/">> \o IdA}
    \cup OddURLs

MaxEntries == 2

SampleStarts == {0, 59999, 60000, 65000, 125900, 3600000, 4503000, 6000000}

Hello == <<"H", "e", "l", "l", "o">>
World == <<"w", "o", "r", "l", "d">>

SampleTexts == {<<>>, Hello, World, <<"a", "\n", "b">>}

Entries == [start : SampleStarts, text : SampleTexts]

NonDecreasing(t) == \A i \in 1..(Len(t) - 1) : t[i].start <= t[i + 1].start

Transcripts ==
    {t \in UNION {[1..n -> Entries] : n \in 0..MaxEntries} : NonDecreasing(t)}

HelloWorld == <<[start |-> 0, text |-> Hello], [start |-> 65000, text |-> World]>>

SampleTranscripts ==
    {<<>>, HelloWorld, <<[start |-> 125900, text |-> <<"a", "\n", "b">>]>>}

\* network error, no captions, video unavailable, malformed response, and an
\* exception whose text is empty
UpstreamFailures ==
    {Failure("ProxyError", <<"Cannot connect to proxy.", " Connection refused">>),
     Failure("TranscriptsDisabled", <<"Subtitles are disabled for this video">>),
     Failure("VideoUnavailable", <<"The video is no longer available">>),
     Failure("ParseError", <<"no element found: line 1, column 0">>),
     Failure("RequestBlocked", <<>>)}

Responses == UpstreamFailures \cup {Success(t) : t \in SampleTranscripts}

AppSeg == <<"a", "p", "p">>
TmpSeg == <<"t", "m", "p">>

WriteBlogPost == <<"w", "r", "i", "t", "e", "_", "b", "l", "o", "g", "_", "p", "o", "s", "t">>
PromptNames == {WriteBlogPost, <<"n", "o", "p", "e">>, <<"/", "t", "m", "p", "/", "x">>,
                <<".", ".", "/", "x">>}

DocFile == Resolve(<<AppSeg>>, ServerInstructionsPath)
BlogFile == Resolve(<<>>, prompt_path_of(WriteBlogPost))

\* a file outside the installation directory
OutsideFile == <<TmpSeg, <<"x", ".", "m", "d">>>>

WatchedFiles ==
    {Resolve(<<>>, prompt_path_of(n)) : n \in PromptNames}
    \cup {<<AppSeg, PromptsDirName, TmpSeg, <<"x", ".", "m", "d">>>>}

Contents == {<<"#", " ", "A">>, <<"B", "\r", "\n", "C">>}

Environ(domain, resource, username, password, base) ==
    [n \in {"AUTH0_DOMAIN", "RESOURCE_SERVER_URL",
            "PROXY_USERNAME", "PROXY_PASSWORD", "PROXY_URL"} |->
        CASE n = "AUTH0_DOMAIN" -> domain
          [] n = "RESOURCE_SERVER_URL" -> resource
          [] n = "PROXY_USERNAME" -> username
          [] n = "PROXY_PASSWORD" -> password
          [] OTHER -> base]

IdleCalls ==
    /\ pc = [c \in Calls |-> "idle"]
    /\ args = [c \in Calls |-> [tool |-> "", arg |-> <<>>]]
    /\ locals = [c \in Calls |-> NoLocals]
    /\ outcome = [c \in Calls |-> NoOutcome]
    /\ fetches = [c \in Calls |-> 0]

(***************************************************************************)
(* Spec: the whole program.  The module-level code runs, and once the      *)
(* serving loop is started, invocations of the two tools are handled, any  *)
(* number of them in flight at once.                                       *)
(***************************************************************************)
BootOrder ==
    <<"auth0_domain", "resource_server_url", "server_instructions", "token_verifier",
      "mcp", "fetch_video_transcript", "fetch_instructions", "run">>

ProxyUser == Val("user")
ProxyPass == Val("secret")
ProxyBase == Val("proxy.example.com:8080")

InstalledFiles == [f \in {DocFile, BlogFile} |-> <<"#", " ", "A">>]

FileSystems ==
    {InstalledFiles,
     [f \in {DocFile} |-> <<"#", " ", "A">>],
     [f \in {BlogFile} |-> <<"#", " ", "A">>]}

CaptionStates ==
    {[id \in {IdA, IdB} |->
        IF id = IdA THEN Success(HelloWorld)
        ELSE Failure("TranscriptsDisabled", <<"Subtitles are disabled for this video">>)],
     [id \in {IdA, IdB} |->
        IF id = IdA THEN Failure("ProxyError", <<"Cannot connect to proxy.">>)
        ELSE Success(<<>>)]}

CallInputs ==
    TranscriptCalls({WatchPrefix \o IdA, ShortPrefix \o IdB, <<"?">> \o IdA})
    \cup InstructionCalls({WriteBlogPost, <<"n", "o", "p", "e">>})

Init ==
    /\ bootpc = "check_domain"
    /\ bootlog = <<>>
    /\ environ \in
         {Environ(d, r, u, ProxyPass, b) :
             d \in {Unset, Val(""), Val("tenant.auth0.com")},
             r \in {Unset, Val("https://mcp.example.com")},
             u \in {Unset, ProxyUser},
             b \in {Unset, ProxyBase}}
         \cup {Environ(Val("tenant.auth0.com"), Val("https://mcp.example.com"),
                       Unset, Unset, Unset)}
    /\ cwd \in {<<AppSeg>>, <<TmpSeg>>}
    /\ files \in FileSystems
    /\ captions \in CaptionStates
    /\ IdleCalls

Boot ==
    \/ CheckDomain
    \/ CheckResourceUrl
    \/ ReadServerInstructions
    \/ CreateVerifier
    \/ CreateServer
    \/ RegisterTranscriptTool
    \/ RegisterInstructionsTool
    \/ Run

Handle(c) ==
    \/ ExtractStep(c)
    \/ ProxyStep(c)
    \/ FetchStep(c)
    \/ FormatStep(c)
    \/ PathStep(c)
    \/ OpenStep(c)
    \/ Return(c)

Next ==
    \/ Boot
    \/ \E c \in Calls :
          \/ Invoke(c, CallInputs)
          \/ Handle(c)

Spec == Init /\ [][Next]_vars

(***************************************************************************)
(* Specifications that drive one handler with a wide range of inputs       *)
(***************************************************************************)
Serving ==
    /\ bootpc = "serving"
    /\ bootlog = BootOrder
    /\ cwd = <<AppSeg>>
    /\ IdleCalls

\* the extraction step, over every URL of URLUniverse
InitExtract ==
    /\ Serving
    /\ environ = Environ(Val("tenant.auth0.com"), Val("https://mcp.example.com"),
                         ProxyUser, ProxyPass, ProxyBase)
    /\ files = InstalledFiles
    /\ captions \in CaptionStates

NextExtract ==
    \/ Invoke(1, TranscriptCalls(URLUniverse))
    \/ ExtractStep(1)

SpecExtract == InitExtract /\ [][NextExtract]_vars

\* fetch_video_transcript, over every transcript the service may answer with
InitFormat ==
    /\ Serving
    /\ environ = Environ(Val("tenant.auth0.com"), Val("https://mcp.example.com"),
                         ProxyUser, ProxyPass, ProxyBase)
    /\ files = InstalledFiles
    /\ captions \in {[id \in {IdA} |-> Success(t)] : t \in Transcripts}

NextFormat ==
    \/ Invoke(1, TranscriptCalls({WatchPrefix \o IdA}))
    \/ ExtractStep(1)
    \/ ProxyStep(1)
    \/ FetchStep(1)
    \/ FormatStep(1)

SpecFormat == InitFormat /\ [][NextFormat]_vars

\* fetch_video_transcript, one call after another, over URLs, proxy settings
\* and answers of the captions service
InitTranscript ==
    /\ Serving
    /\ environ \in
         {Environ(Val("tenant.auth0.com"), Val("https://mcp.example.com"), u, p, b) :
             u \in {Unset, Val(""), ProxyUser},
             p \in {Unset, ProxyPass},
             b \in {Unset, ProxyBase}}
    /\ files = InstalledFiles
    /\ captions \in {[id \in {IdA, IdB} |-> IF id = IdA THEN r ELSE Success(<<>>)] :
                        r \in Responses}

NextTranscript ==
    \/ Invoke(1, TranscriptCalls(TranscriptURLs))
    \/ ExtractStep(1)
    \/ ProxyStep(1)
    \/ FetchStep(1)
    \/ FormatStep(1)
    \/ Return(1)

SpecTranscript == InitTranscript /\ [][NextTranscript]_vars

\* fetch_instructions, one call after another, while the prompt files change
InitInstructions ==
    /\ bootpc = "serving"
    /\ bootlog = BootOrder
    /\ IdleCalls
    /\ cwd \in {<<AppSeg>>, <<TmpSeg>>, <<>>}
    /\ environ = Environ(Val("tenant.auth0.com"), Val("https://mcp.example.com"),
                         Unset, Unset, Unset)
    /\ files \in {InstalledFiles,
                 [f \in {DocFile, BlogFile, OutsideFile} |-> <<"#", " ", "A">>]}
    /\ captions \in {[id \in {IdA} |-> Success(<<>>)]}

NextInstructions ==
    \/ Invoke(1, InstructionCalls(PromptNames))
    \/ PathStep(1)
    \/ OpenStep(1)
    \/ Return(1)
    \/ \E target \in WatchedFiles, raw \in Contents : WriteFile(target, raw)
    \/ \E target \in WatchedFiles : DeleteFile(target)

SpecInstructions == InitInstructions /\ [][NextInstructions]_vars

(***************************************************************************)
(* Properties                                                              *)
(***************************************************************************)
\* the invocation has left the extraction step
Extracted(c) == pc[c] \in {"proxy", "fetch", "format", "done"}

\* eleven characters of the class start at position j
IdAt(url, j) ==
    /\ j + IdLen - 1 <= Len(url)
    /\ \A k \in j..(j + IdLen - 1) : url[k] \in IdChars

\* the positions where eleven characters of the class directly follow a "/"
\* or a "v="
TokenStarts(url) ==
    {j \in 1..Len(url) :
        /\ IdAt(url, j)
        /\ \/ j >= 2 /\ url[j - 1] = "/"
           \/ j >= 3 /\ url[j - 2] = "v" /\ url[j - 1] = "="}

TokenAt(url, j) == SubSeq(url, j, j + IdLen - 1)

Smallest(S) == CHOOSE x \in S : \A y \in S : x <= y
Largest(S) == CHOOSE x \in S : \A y \in S : x >= y

\* C1: for a URL of one of the common shapes (watch?v=ID, youtu.be/ID,
\* .../embed/ID), with or without query parameters after the ID, the
\* extraction yields exactly the 11-character ID and the call goes on.
C1_CommonShapesYieldId ==
    \A p \in CommonPrefixes, s \in QuerySuffixes :
        LET url == args[1].arg
            from == Len(p) + 1
            to == Len(p) + IdLen
        IN  ( /\ Extracted(1)
              /\ Len(url) = to + Len(s)
              /\ StartsWith(url, p)
              /\ SubSeq(url, to + 1, Len(url)) = s
              /\ \A j \in from..to : url[j] \in SampleIdChars )
            => /\ pc[1] = "proxy"
               /\ outcome[1] = NoOutcome
               /\ locals[1].video_id = SubSeq(url, from, to)

C1_Witness ==
    /\ pc[1] = "proxy"
    /\ args[1].arg = EmbedPrefix \o Rep("-", 3) \o Rep("_", 8) \o <<"?", "t", "=", "1", "0">>
    /\ locals[1].video_id = Rep("-", 3) \o Rep("_", 8)

\* C9 as stated: with several "/" or "v=" each followed by eleven valid
\* characters, the extraction yields the token after the last of them.
C9_LastTokenReturned ==
    LET url == args[1].arg
    IN  (pc[1] = "proxy" /\ Cardinality(TokenStarts(url)) >= 2)
        => locals[1].video_id = TokenAt(url, Largest(TokenStarts(url)))

\* C9 amended: with several "/" or "v=" each followed by eleven valid
\* characters, the extraction yields the token after the first (leftmost) of
\* them.
C9_FirstTokenReturned ==
    LET url == args[1].arg
    IN  (Extracted(1) /\ Cardinality(TokenStarts(url)) >= 2)
        => /\ pc[1] = "proxy"
           /\ locals[1].video_id = TokenAt(url, Smallest(TokenStarts(url)))

C9_Witness ==
    LET url == args[1].arg
    IN  /\ pc[1] = "proxy"
        /\ Cardinality(TokenStarts(url)) >= 2
        /\ TokenAt(url, Smallest(TokenStarts(url))) # TokenAt(url, Largest(TokenStarts(url)))
        /\ locals[1].video_id = IdA

\* C2: the call fails with ValueError("Invalid YouTube URL") exactly when no
\* "v=" or "/" of the url is directly followed by eleven characters of the
\* class; the error is that ValueError itself, not the wrapping Exception,
\* under every proxy configuration, and the captions client is not called.
C2_InvalidUrlExactly ==
    LET url == args[1].arg
    IN  Extracted(1) =>
           /\ (outcome[1] = Raised("ValueError", InvalidUrlMessage))
                 <=> (TokenStarts(url) = {})
           /\ (TokenStarts(url) = {}) => (pc[1] = "done" /\ fetches[1] = 0)

C2_Witness ==
    /\ pc[1] = "done"
    /\ TokenStarts(args[1].arg) = {}
    /\ args[1].arg # <<>>
    /\ ~Falsy(environ["PROXY_USERNAME"])
    /\ ~Falsy(environ["PROXY_PASSWORD"])
    /\ ~Falsy(environ["PROXY_URL"])
    /\ outcome[1].kind = "ValueError"

\* the error category a caller can tell from the exception it receives
Category(result) ==
    CASE result.kind = "ValueError" /\ result.value = InvalidUrlMessage
            -> "InvalidInput"
      [] result.kind = "ValueError" /\ result.value = ProxyMissingMessage
            -> "ConfigurationMissing"
      [] result.kind = "Exception" /\ StartsWith(result.value, <<WrapPrefix>>)
            -> "TranscriptFetchFailed"
      [] result.kind = "FileNotFoundError" -> "NotFound"
      [] OTHER -> "none"

ProxyIncomplete ==
    \E n \in {"PROXY_USERNAME", "PROXY_PASSWORD", "PROXY_URL"} : ~environ[n].set

\* message m occurs in text
Contains(text, m) ==
    \E i \in 1..(Len(text) + 1) :
        /\ i + Len(m) - 1 <= Len(text)
        /\ SubSeq(text, i, i + Len(m) - 1) = m

\* C3: with a valid URL and one of PROXY_USERNAME, PROXY_PASSWORD, PROXY_URL
\* unset, the call fails with ConfigurationMissing, which is not the
\* TranscriptFetchFailed category, and the captions client is not called.
C3_ProxyMissingIsConfigurationMissing ==
    (pc[1] = "done" /\ TokenStarts(args[1].arg) # {} /\ ProxyIncomplete)
    => /\ Category(outcome[1]) = "ConfigurationMissing"
       /\ Category(outcome[1]) # "TranscriptFetchFailed"
       /\ fetches[1] = 0

\* C4: when the captions client raises an exception with message m, whatever
\* its type, the call ends with the one wrapping Exception whose message
\* contains m, never with a returned string, and the client was called once.
C4_UpstreamFailureWrapped ==
    /\ fetches[1] <= 1
    /\ (pc[1] = "done" /\ fetches[1] >= 1
          /\ ~CaptionsFor(locals[1].video_id).ok)
       => /\ fetches[1] = 1
          /\ outcome[1].kind # "return"
          /\ Category(outcome[1]) = "TranscriptFetchFailed"
          /\ Contains(outcome[1].value,
                      CaptionsFor(locals[1].video_id).error.value)

C4_Witness ==
    /\ pc[1] = "done"
    /\ fetches[1] = 1
    /\ CaptionsFor(locals[1].video_id) =
          Failure("ProxyError", <<"Cannot connect to proxy.", " Connection refused">>)
    /\ outcome[1].kind = "Exception"

\* the lines of a text: what "\n" separates, none for the empty text
RECURSIVE SplitLines(_, _)
SplitLines(text, line) ==
    IF text = <<>> THEN <<line>>
    ELSE IF Head(text) = "\n" THEN <<line>> \o SplitLines(Tail(text), <<>>)
    ELSE SplitLines(Tail(text), Append(line, Head(text)))

Lines(text) == IF text = <<>> THEN <<>> ELSE SplitLines(text, <<>>)

IsDigit(ch) == ch \in {"0", "1", "2", "3", "4", "5", "6", "7", "8", "9"}

\* ^\[\d{2,}:\d{2}\] .*$  (a line holds no newline)
LineMatches(line) ==
    \E k \in 2..Len(line) :
        /\ Len(line) >= k + 6
        /\ line[1] = "["
        /\ \A j \in 2..(k + 1) : IsDigit(line[j])
        /\ line[k + 2] = ":"
        /\ IsDigit(line[k + 3])
        /\ IsDigit(line[k + 4])
        /\ line[k + 5] = "]"
        /\ line[k + 6] = " "

EndsWith(text, tail) ==
    /\ Len(text) >= Len(tail)
    /\ SubSeq(text, Len(text) - Len(tail) + 1, Len(text)) = tail

\* C5: for N entries with non-decreasing start offsets the returned text has
\* exactly N lines (it is empty for N = 0), line i is the line of entry i,
\* and every line matches ^\[\d{2,}:\d{2}\] .*$, whatever the entry texts
\* are, empty ones and ones that contain a newline included.
C5_OneLinePerEntry ==
    (pc[1] = "done" /\ outcome[1].kind = "return")
    => LET transcript == locals[1].transcript
           lines == Lines(outcome[1].value)
       IN  /\ Len(lines) = Len(transcript)
           /\ \A i \in 1..Len(lines) :
                 /\ LineMatches(lines[i])
                 /\ i <= Len(transcript)
                       => EndsWith(lines[i], <<" ">> \o transcript[i].text)

RECURSIVE FindFrom(_, _, _)
FindFrom(text, ch, i) ==
    IF i > Len(text) THEN 0
    ELSE IF text[i] = ch THEN i ELSE FindFrom(text, ch, i + 1)

DigitValue(ch) == CHOOSE d \in 0..9 : DigitChars[d + 1] = ch

RECURSIVE NumberOf(_)
NumberOf(digits) ==
    IF digits = <<>> THEN 0
    ELSE 10 * NumberOf(SubSeq(digits, 1, Len(digits) - 1))
         + DigitValue(digits[Len(digits)])

\* the timestamps the specification gives for particular offsets
ExampleStamps ==
    {<<0, <<"[", "0", "0", ":", "0", "0", "]">>>>,
     <<59999, <<"[", "0", "0", ":", "5", "9", "]">>>>,
     <<125900, <<"[", "0", "2", ":", "0", "5", "]">>>>,
     <<3600000, <<"[", "6", "0", ":", "0", "0", "]">>>>,
     <<4503000, <<"[", "7", "5", ":", "0", "3", "]">>>>,
     <<65000, <<"[", "0", "1", ":", "0", "5", "]">>>>}

\* text holds, from position p on, the entries i.. of the transcript, each as
\* "[MM:SS] <text>" with MM = floor(start / 60), not wrapped at 60, and
\* SS = floor(start mod 60), both of at least two digits, a newline between
\* two entries and nothing after the last
RECURSIVE StampedFrom(_, _, _, _)
StampedFrom(text, p, transcript, i) ==
    IF i > Len(transcript)
    THEN IF transcript = <<>> THEN text = <<>> ELSE p = Len(text) + 2
    ELSE
      LET entry == transcript[i]
          colon == FindFrom(text, ":", p)
          close == FindFrom(text, "]", p)
          mm == SubSeq(text, p + 1, colon - 1)
          ss == SubSeq(text, colon + 1, close - 1)
          whole == entry.start \div TicksPerSecond
          after == close + 2 + Len(entry.text)
      IN  /\ p <= Len(text)
          /\ text[p] = "["
          /\ p < colon
          /\ colon < close
          /\ \A j \in 1..Len(mm) : IsDigit(mm[j])
          /\ \A j \in 1..Len(ss) : IsDigit(ss[j])
          /\ Len(ss) = 2
          /\ Len(mm) >= 2
          /\ Len(mm) > 2 => mm[1] # "0"
          /\ NumberOf(ss) \in 0..59
          /\ NumberOf(mm) * 60 + NumberOf(ss) = whole
          /\ \A ex \in ExampleStamps :
                ex[1] = entry.start => SubSeq(text, p, close) = ex[2]
          /\ close + 1 <= Len(text)
          /\ text[close + 1] = " "
          /\ SubSeq(text, close + 2, after - 1) = entry.text
          /\ i < Len(transcript) => (after <= Len(text) /\ text[after] = "\n")
          /\ StampedFrom(text, after + 1, transcript, i + 1)

\* C6: every entry's timestamp is [MM:SS] with MM = floor(s / 60) and
\* SS = floor(s mod 60), zero-padded to at least two digits: SS is in 0..59,
\* truncated and never rounded up, MM is not wrapped at 60; and the entries
\* {0, "Hello"}, {65, "world"} give "[00:00] Hello\n[01:05] world".
C6_TimestampsTruncate ==
    (pc[1] = "done" /\ outcome[1].kind = "return")
    => /\ StampedFrom(outcome[1].value, 1, locals[1].transcript, 1)
       /\ locals[1].transcript = HelloWorld
             => outcome[1].value =
                <<"[", "0", "0", ":", "0", "0", "]", " ", "H", "e", "l", "l", "o", "\n",
                    "[", "0", "1", ":", "0", "5", "]", " ", "w", "o", "r", "l", "d">>

C6_Witness ==
    /\ pc[1] = "done"
    /\ outcome[1].kind = "return"
    /\ Len(locals[1].transcript) = 2
    /\ locals[1].transcript[1].start = 59999
    /\ locals[1].transcript[2].start = 4503000

\* <installation-dir>/prompts/<name>.md, the installation directory being the
\* directory of main.py
InstalledPromptFile(name) ==
    Resolve(<<>>, dirname(MainFile) \o <<"/">> \o PromptsDirName \o <<"/">>
                  \o name \o MdSuffix)

\* C7: whatever files were created, rewritten or deleted before, a call
\* fetch_instructions(name) returns, unmodified, what the file
\* <installation-dir>/prompts/<name>.md holds at the moment it is read, and
\* fails with NotFound when that file does not exist then; the working
\* directory plays no part.
C7_ReadsInstalledFileNow ==
    [][ (pc[1] = "open" /\ pc'[1] = "done")
        => LET target == InstalledPromptFile(args[1].arg)
           IN  IF target \in DOMAIN files
               THEN outcome'[1] = Returned(files[target])
               ELSE Category(outcome'[1]) = "NotFound" ]_vars

\* the instructions document of the start-up can be read
DocReadable == Resolve(cwd, ServerInstructionsPath) \in DOMAIN files

\* C8: the start-up steps happen in the order check of the provider domain
\* and of the resource-server URL, read of the instructions document,
\* construction of the verifier, registration of the two tools, start of the
\* serving loop, each at most once; a run in which the domain or the URL is
\* absent or the document cannot be read is aborted at that step, an aborted
\* run stays aborted, and only a run whose earlier steps all succeeded
\* serves, the proxy values playing no part.
C8_BootInOrder ==
    /\ [](/\ bootlog = SubSeq(BootOrder, 1, Len(bootlog))
          /\ bootpc = "serving"
                => /\ bootlog = BootOrder
                   /\ environ["AUTH0_DOMAIN"].set
                   /\ environ["RESOURCE_SERVER_URL"].set
                   /\ DocReadable
          /\ (~environ["AUTH0_DOMAIN"].set /\ bootpc # "check_domain")
                => (bootpc = "aborted" /\ bootlog = <<>>)
          /\ (~environ["RESOURCE_SERVER_URL"].set
                /\ bootpc \notin {"check_domain", "check_resource"})
                => (bootpc = "aborted" /\ Len(bootlog) <= 1)
          /\ (~DocReadable
                /\ bootpc \notin {"check_domain", "check_resource", "read_instructions"})
                => (bootpc = "aborted" /\ Len(bootlog) <= 2)
          /\ bootpc = "aborted" => Len(bootlog) <= 4
          /\ \A c \in Calls : pc[c] # "idle" => bootpc = "serving")
    /\ [][ /\ bootpc = "aborted" => bootpc' = "aborted"
           /\ bootpc = "serving" => bootpc' = "serving"
           /\ bootpc' = "aborted" => bootlog' = bootlog
           /\ Len(bootlog') \in {Len(bootlog), Len(bootlog) + 1} ]_vars

C8_Witness ==
    /\ bootpc = "serving"
    /\ bootlog = BootOrder
    /\ \A n \in {"PROXY_USERNAME", "PROXY_PASSWORD", "PROXY_URL"} : ~environ[n].set

\* what the call would return or raise if it ran alone
AloneOutcome(call) ==
    IF call.tool = "fetch_video_transcript"
    THEN fetch_video_transcript(call.arg)
    ELSE fetch_instructions(call.arg)

\* C10: however the invocations in flight interleave, each ends as it would
\* have ended alone against the same configuration, files and captions
\* service; no step of a handler changes what the others read, whether the
\* call fails or not.
C10_Isolated ==
    /\ [](\A c \in Calls : pc[c] = "done" => outcome[c] = AloneOutcome(args[c]))
    /\ [][ /\ environ' = environ
           /\ cwd' = cwd
           /\ files' = files
           /\ captions' = captions
           /\ \A c \in Calls :
                 pc'[c] = pc[c]
                    => /\ args'[c] = args[c]
                       /\ locals'[c] = locals[c]
                       /\ outcome'[c] = outcome[c]
                       /\ fetches'[c] = fetches[c] ]_vars

C10_Witness ==
    /\ pc[1] = "done"
    /\ Category(outcome[1]) = "TranscriptFetchFailed"
    /\ pc[2] = "format"
    /\ locals[2].video_id # locals[1].video_id
    /\ fetches[1] = 1

====
